---- MODULE Spec2Model ----
(***************************************************************************)
(* Model of src/autotrade.py: the trading loop of TradingSystem (run,      *)
(* trade_logic, execute_order, get_last_price), the decision maker's       *)
(* load_model / predict, and the gateway wrappers of BinanceAPI as far as  *)
(* their return values (a result, or None after a caught exception).       *)
(*                                                                         *)
(* The program is single threaded: one action is one whole call of a       *)
(* handler, its inputs (what the exchange and the classifier answer)       *)
(* drawn with \E.  Floating point amounts are modelled as exact rationals. *)
(*                                                                         *)
(* Spec is the whole process from __main__.  SpecPredict, SpecFilter and   *)
(* SpecTradeLogic are single calls of predict, get_trading_symbols and     *)
(* trade_logic on inputs drawn in the initial state; SpecTrain is          *)
(* train_model statement by statement.                                     *)
(***************************************************************************)
EXTENDS Integers, Sequences, FiniteSets, TLC

VARIABLES
  pc,              \* position of the process: "main", "failed_start", "trade_logic",
                   \* "retrain_check", "sleep", "except", "pass_done"
  idx,             \* index in self.symbols of the symbol the for loop is at
  symbols,         \* self.symbols
  position,        \* self.position: symbol -> Absent or [side, amount]
  trade_history,   \* self.trade_history (the in-memory DataFrame), as a sequence of rows
  trade_file,      \* rows of trade_history.csv
  decision_maker,  \* self.decision_maker: [model, scaler, label_encoder, n_features]
  risk,            \* the module globals RESERVE_RATIO, MAX_PORTFOLIO_EXPOSURE, MIN_TRADE_AMOUNT
  pandas_append,   \* whether the installed pandas still has DataFrame.append
  elapsed,         \* time.time() - self.performance_last_checked > 86400
  gateway_orders,  \* number of orders the exchange has accepted
  call,            \* the trade_logic call that has just returned or raised: what it
                   \* was asked, what it fetched and did; NoCall once run has moved on
  markets,         \* what fetch_markets_sync answered at line 423 (self.markets), or
                   \* NotFetched
  slept            \* whether time.sleep has been called in the pass of the while loop
                   \* that is in progress
VARIABLES
  query,           \* a predict call on its own: [dm, indicators, clf]
  answer           \* what the two definitions of predict return for it

system_vars == <<pc, idx, symbols, position, trade_history, trade_file, decision_maker,
                 risk, pandas_append, elapsed, gateway_orders, call, markets, slept>>
VARIABLES
  filter_query,    \* a get_trading_symbols call on its own: [markets, fresh, tickers, cfg]
  filter_answer    \* what verify_symbols, apply_coin_filter and the call return for it

VARIABLES
  train_query,     \* a train_model or retrain_model call on its own: the decision maker
                   \* it is called on, as it was before the call
  model_files      \* the artifacts at model_path, scaler_path, label_encoder_path

predict_vars == <<query, answer>>
filter_vars == <<filter_query, filter_answer>>
train_vars == <<train_query, model_files>>
function_vars == <<predict_vars, filter_vars, train_vars>>
vars == <<system_vars, function_vars>>

----------------------------------------------------------------------------
(* Bounds *)

\* The exchange accepts at most this many orders in a run.
MaxOrders == 1

----------------------------------------------------------------------------
(* Rational arithmetic for the float computations of execute_order *)

Abs(n) == IF n < 0 THEN -n ELSE n

RECURSIVE GCD(_, _)
GCD(a, b) == IF b = 0 THEN a ELSE GCD(b, a % b)

\* n/d in lowest terms with a positive denominator (d # 0)
Rat(n, d) ==
  LET g == GCD(Abs(n), Abs(d))
      s == IF d < 0 THEN -1 ELSE 1
  IN  [num |-> (s * n) \div g, den |-> (s * d) \div g]

RatInt(n) == [num |-> n, den |-> 1]
RatMul(a, b) == Rat(a.num * b.num, a.den * b.den)
RatDiv(a, b) == Rat(a.num * b.den, a.den * b.num)
RatSub(a, b) == Rat(a.num * b.den - b.num * a.den, a.den * b.den)
RatLess(a, b) == a.num * b.den < b.num * a.den
RatLeq(a, b) == a.num * b.den <= b.num * a.den
\* Python's max(a, b): b only when it is strictly greater
RatMax(a, b) == IF RatLess(a, b) THEN b ELSE a

----------------------------------------------------------------------------
(* Values *)

Symbols == {"BTC/USDT", "ETH/USDT"}

Absent == [side |-> "absent", amount |-> RatInt(0)]

\* A price as Python holds it: a number, or None
Num(n) == [null |-> FALSE, val |-> n]
NullPrice == [null |-> TRUE, val |-> 0]

\* the three risk globals, as fractions; defined = FALSE: the names are unbound
RiskConfig(r, e, m) ==
  [defined |-> TRUE, reserve_ratio |-> r, max_portfolio_exposure |-> e,
   min_trade_amount |-> m]
NoRiskConfig ==
  [defined |-> FALSE, reserve_ratio |-> RatInt(0), max_portfolio_exposure |-> RatInt(1),
   min_trade_amount |-> RatInt(1)]
RiskConfigs ==
  { RiskConfig(Rat(1, 10), Rat(1, 5), RatInt(50)),
    RiskConfig(RatInt(0), Rat(1, 25), RatInt(50)),
    NoRiskConfig }

\* fetch_balance_sync's answer: None (kind "fail") or the USDT total
NoBalance == [kind |-> "fail", usdt |-> 0]

NoCall ==
  [symbol |-> "", signal |-> "", side |-> "", outcome |-> "none", placed |-> FALSE,
   accepted |-> FALSE, raised |-> FALSE, predict_raised |-> FALSE,
   balance |-> NoBalance, price |-> Num(0), amount |-> RatInt(0)]

----------------------------------------------------------------------------
(* AIDecisionMaker: the definition of line 310 is the one TradingSystem uses *)

\* the five features predict reads by name (lines 387-393)
PredictFeatures == {"EMA_short", "EMA_long", "MACD", "MACD_signal", "RSI"}

Labels == {"BUY", "SELL", "HOLD", "AVERAGE_DOWN", "1"}

NoDecisionMaker ==
  [model |-> "none", scaler |-> "none", label_encoder |-> "none", n_features |-> 0]

\* load_model (lines 322-348) when the model file exists: each joblib.load may
\* raise ("corrupt"), which sets the model to None and leaves what was not yet
\* assigned at None; a missing scaler or encoder file gives a fresh, unfitted one.
LoadModel(model_file, scaler_file, label_file, n) ==
  IF model_file = "corrupt" THEN NoDecisionMaker
  ELSE IF scaler_file = "corrupt" THEN NoDecisionMaker
  ELSE LET sc == IF scaler_file = "ok" THEN "fitted" ELSE "unfitted"
       IN  IF label_file = "corrupt"
           THEN [model |-> "none", scaler |-> sc, label_encoder |-> "none",
                 n_features |-> n]
           ELSE [model |-> "fitted", scaler |-> sc,
                 label_encoder |-> IF label_file = "ok" THEN "fitted" ELSE "unfitted",
                 n_features |-> n]

\* predict (lines 378-403).  indicators: the key set of the mapping passed in;
\* clf: what the fitted classifier answers for the vector (its label, or raising).
\* The vector is built from the five named features with defaults, whatever
\* indicators holds.

\* lines 382-384
NotLoaded(dm) == dm.model = "none" \/ dm.scaler = "none" \/ dm.label_encoder = "none"

\* whether the try block of lines 386-400 raises, for a vector of input_size
\* entries: scaler.transform when unfitted or fitted on another width, the
\* classifier, inverse_transform when the encoder is unfitted
TryRaises(dm, input_size, clf) ==
  \/ dm.scaler = "unfitted"
  \/ dm.n_features # input_size
  \/ clf.raises
  \/ dm.label_encoder = "unfitted"

\* (variant: the except clause does not turn a raise into HOLD)
Predict_NoCatch(dm, indicators, clf) ==
  IF NotLoaded(dm) THEN "HOLD" ELSE clf.label

Predict(dm, indicators, clf) ==
  IF NotLoaded(dm) THEN "HOLD"
  ELSE IF TryRaises(dm, Cardinality(PredictFeatures), clf) THEN "HOLD"
  ELSE clf.label

\* predict of the first definition (lines 109-131), which the second one shadows:
\* the vector is list(indicators.values()), and a size other than
\* expected_input_size returns HOLD before anything is computed
PredictFirst(dm, indicators, clf) ==
  IF NotLoaded(dm) THEN "HOLD"
  ELSE IF dm.n_features # Cardinality(indicators) THEN "HOLD"
  ELSE IF TryRaises(dm, Cardinality(indicators), clf) THEN "HOLD"
  ELSE clf.label

----------------------------------------------------------------------------
(* TradingSystem.execute_order and what it calls *)

\* get_last_price (lines 588-594): 0 when the ticker fetch failed or the ticker
\* has no 'last' key, else ticker['last'] (a number or None)
GetLastPrice(ticker) ==
  IF ticker.kind = "last" THEN ticker.last ELSE Num(0)

\* line 553: balance['total'].get('USDT', 0) * (1 - RESERVE_RATIO)
UsableBalance(usdt) == RatMul(RatInt(usdt), RatSub(RatInt(1), risk.reserve_ratio))

\* (variant: the comparison of line 554 the other way round)
BelowMinimum_Inverted(usdt_balance) == RatLess(risk.min_trade_amount, usdt_balance)

\* line 554
BelowMinimum(usdt_balance) == RatLess(usdt_balance, risk.min_trade_amount)

\* line 560: last_price == 0 (None == 0 is False)
PriceIsZero(last_price) == ~last_price.null /\ last_price.val = 0

\* (variant: line 566 left out, the size is not raised to the floor)
OrderAmount_NoFloor(usdt_balance, last_price) ==
  RatDiv(RatMul(usdt_balance, risk.max_portfolio_exposure), RatInt(last_price))

\* lines 564-566, for a numeric non-zero last_price
OrderAmount(usdt_balance, last_price) ==
  LET amount == RatDiv(RatMul(usdt_balance, risk.max_portfolio_exposure),
                       RatInt(last_price))
  IN  RatMax(amount, RatDiv(risk.min_trade_amount, RatInt(last_price)))

\* side.upper()
Upper(side) == IF side = "buy" THEN "BUY" ELSE "SELL"

\* line 572
FilledPosition(side, amount) == [side |-> Upper(side), amount |-> amount]

\* line 578: order.get('average', last_price)
TradePrice(order, last_price) ==
  IF order.average.kind = "absent" THEN Num(last_price)
  ELSE IF order.average.kind = "null" THEN NullPrice
  ELSE Num(order.average.val)

\* lines 574-581 (the timestamp is left out)
TradeRow(symbol, side, order, last_price, amount) ==
  [symbol |-> symbol, action |-> Upper(side), price |-> TradePrice(order, last_price),
   amount |-> amount, order_id |-> order.id]

Result(outcome, placed, accepted, raised, price, amount, pos, hist) ==
  [outcome |-> outcome, placed |-> placed, accepted |-> accepted, raised |-> raised,
   price |-> price, amount |-> amount, pos |-> pos, hist |-> hist]

\* (variant: the position is written before the order is tested)
AfterOrder_FillsOnFailure(symbol, side, order, last_price, amount) ==
  LET pos == [position EXCEPT ![symbol] = FilledPosition(side, amount)]
  IN  IF ~order.ok
      THEN Result("order_failed", TRUE, FALSE, FALSE, Num(last_price), amount,
                  pos, trade_history)
      ELSE Result("append_error", TRUE, TRUE, TRUE, Num(last_price), amount,
                  pos, trade_history)

\* (variant: the frame is rebuilt from the new row alone)
AfterOrder_OverwritesHistory(symbol, side, order, last_price, amount) ==
  IF ~order.ok
  THEN Result("order_failed", TRUE, FALSE, FALSE, Num(last_price), amount,
              position, trade_history)
  ELSE Result("save_error", TRUE, TRUE, TRUE, Num(last_price), amount,
              [position EXCEPT ![symbol] = FilledPosition(side, amount)],
              <<TradeRow(symbol, side, order, last_price, amount)>>)

\* lines 570-586, after place_order_sync returned order
AfterOrder(symbol, side, order, last_price, amount) ==
  IF ~order.ok
  THEN Result("order_failed", TRUE, FALSE, FALSE, Num(last_price), amount,
              position, trade_history)
  ELSE LET pos == [position EXCEPT ![symbol] = FilledPosition(side, amount)]
           row == TradeRow(symbol, side, order, last_price, amount)
       IN  IF ~pandas_append
           THEN \* line 582: DataFrame has no attribute 'append'
                Result("append_error", TRUE, TRUE, TRUE, Num(last_price), amount,
                       pos, trade_history)
           ELSE \* line 583: TradingSystem has no attribute 'save_trade_history'
                Result("save_error", TRUE, TRUE, TRUE, Num(last_price), amount,
                       pos, Append(trade_history, row))

\* execute_order (lines 546-586)
ExecuteOrder(symbol, side, balance, ticker, order) ==
  LET same(outcome, raised, price) ==
        Result(outcome, FALSE, FALSE, raised, price, RatInt(0), position, trade_history)
  IN
  IF balance.kind = "fail" THEN same("no_balance", FALSE, Num(0))
  ELSE IF ~risk.defined
       THEN \* line 553: name 'RESERVE_RATIO' is not defined
            same("name_error", TRUE, Num(0))
  ELSE
    LET usdt_balance == UsableBalance(balance.usdt)
        last_price == GetLastPrice(ticker)
    IN  IF BelowMinimum(usdt_balance) THEN same("below_minimum", FALSE, Num(0))
        ELSE IF PriceIsZero(last_price) THEN same("price_zero", FALSE, last_price)
        ELSE IF last_price.null
             THEN \* line 564: float / None
                  same("type_error", TRUE, last_price)
        ELSE AfterOrder(symbol, side, order, last_price.val,
                        OrderAmount(usdt_balance, last_price.val))

----------------------------------------------------------------------------
(* Universe selection: verify_symbols, apply_coin_filter, get_trading_symbols *)

\* the catalog load_markets returns, in its iteration order
MarketCatalog == <<"BTC/USDT", "ETH/BTC", "ETH/USDT">>

\* the catalog a get_trading_symbols call on its own is handed
FilterCatalog == <<"ADA/USDT", "BNB/USDT", "BTC/USDT", "DOGE/USDT", "DOT/USDT", "ETH/BTC",
                   "ETH/USDT", "LTC/USDT", "SOL/USDT", "TRX/USDT", "XRP/USDT">>
FilterNames == {FilterCatalog[i] : i \in 1..Len(FilterCatalog)}

\* '/USDT' in symbol (line 485)
IsUsdt(symbol) == symbol \in FilterNames \ {"ETH/BTC"}

\* verify_symbols (lines 291-304); fresh: the catalog fetched again, as a set,
\* or "none" when fetch_markets_sync returned None
VerifySymbols(syms, fresh) ==
  IF fresh.kind = "none" THEN <<>>
  ELSE SelectSeq(syms, LAMBDA s : s \in fresh.names)

\* COIN_FILTER_CONFIG: a module global the file never binds
CoinFilterConfig == [defined |-> TRUE, min_volume |-> 100, top_n |-> 1,
                     min_price_volatility |-> 2]
NoCoinFilterConfig == [defined |-> FALSE, min_volume |-> 0, top_n |-> 0,
                       min_price_volatility |-> 0]

\* sorted(..., key=quoteVolume, reverse=True): stable, descending
RECURSIVE InsertByVolume(_, _, _)
InsertByVolume(sorted, s, t) ==
  IF sorted = <<>> THEN <<s>>
  ELSE IF t[Head(sorted)].quoteVolume >= t[s].quoteVolume
       THEN <<Head(sorted)>> \o InsertByVolume(Tail(sorted), s, t)
       ELSE <<s>> \o sorted

RECURSIVE SortByVolume(_, _)
SortByVolume(syms, t) ==
  IF syms = <<>> THEN <<>>
  ELSE InsertByVolume(SortByVolume(SubSeq(syms, 1, Len(syms) - 1), t), syms[Len(syms)], t)

\* One entry of fetch_tickers' answer.  kind "missing": the symbol has no entry, so
\* ticker_data.get(symbol, {}) gives quoteVolume 0 and percentage 0 by default;
\* "null_volume", "null_percentage": the field is there and holds None.
Ticker(v, p) == [kind |-> "ok", quoteVolume |-> v, percentage |-> p]
MissingTicker == [kind |-> "missing", quoteVolume |-> 0, percentage |-> 0]

\* lines 455-459: the symbols whose quote volume reaches min_volume
SymbolsWithVolume(syms, t, cfg) ==
  SelectSeq(syms, LAMBDA s : t[s].quoteVolume >= cfg.min_volume)

\* lines 462-463: sorted by quote volume, descending, then the slice [:top_n]
TopNSymbols(syms, t, cfg) ==
  LET sorted_symbols == SortByVolume(SymbolsWithVolume(syms, t, cfg), t)
  IN  SubSeq(sorted_symbols, 1,
             IF Len(sorted_symbols) < cfg.top_n THEN Len(sorted_symbols) ELSE cfg.top_n)

\* lines 466-473: final_symbols, when nothing in the try block raises
FinalSymbols(syms, t, cfg) ==
  SelectSeq(TopNSymbols(syms, t, cfg),
            LAMBDA s : Abs(t[s].percentage) >= cfg.min_price_volatility)

\* The try block of lines 453-474 raises: fetch_tickers fails; COIN_FILTER_CONFIG is
\* unbound (NameError); a quoteVolume of None is compared with a number; the sort
\* key ticker_data[s] misses a symbol that passed the volume test; abs() of a
\* percentage of None.
CoinFilterRaises(syms, tickers, cfg) ==
  \/ tickers.kind = "fail"
  \/ ~cfg.defined
  \/ \E i \in 1..Len(syms) : tickers.table[syms[i]].kind = "null_volume"
  \/ LET passed == SymbolsWithVolume(syms, tickers.table, cfg)
     IN  \E i \in 1..Len(passed) : tickers.table[passed[i]].kind = "missing"
  \/ LET top == TopNSymbols(syms, tickers.table, cfg)
     IN  \E i \in 1..Len(top) : tickers.table[top[i]].kind = "null_percentage"

ApplyCoinFilter_EmptyOnFailure(syms, tickers, cfg) ==
  IF CoinFilterRaises(syms, tickers, cfg) THEN <<>>
  ELSE FinalSymbols(syms, tickers.table, cfg)

\* apply_coin_filter (lines 447-479); tickers: fetch_tickers' answer, "fail" when
\* it raises, else a table symbol -> ticker.  Any exception is caught at line 476
\* and the symbols are returned as given (line 479).
ApplyCoinFilter(syms, tickers, cfg) ==
  IF CoinFilterRaises(syms, tickers, cfg) THEN syms
  ELSE FinalSymbols(syms, tickers.table, cfg)

\* get_trading_symbols (lines 481-490)
GetTradingSymbols(catalog, fresh, tickers, cfg) ==
  ApplyCoinFilter(VerifySymbols(SelectSeq(catalog, IsUsdt), fresh), tickers, cfg)

----------------------------------------------------------------------------
(* Inputs: what the environment can answer *)

ModelFiles == {"missing", "corrupt", "ok"}
ArtifactFiles == {"missing", "corrupt", "ok"}
FittedWidths == {Cardinality(PredictFeatures), Cardinality(PredictFeatures) + 2}

NotFetched == [kind |-> "not_fetched", names |-> {}]
MarketAnswers == {[kind |-> "none", names |-> {}],
                  [kind |-> "ok", names |-> {"BTC/USDT", "ETH/BTC", "ETH/USDT"}],
                  [kind |-> "ok", names |-> {"BTC/USDT", "ETH/BTC"}]}

TickerTable(v1, p1, v2, p2) ==
  [kind |-> "ok",
   table |-> [s \in Symbols |->
                IF s = "BTC/USDT" THEN Ticker(v1, p1) ELSE Ticker(v2, p2)]]
TickerAnswers == {[kind |-> "fail", table |-> <<>>],
                  TickerTable(500, 3, 900, -4),
                  TickerTable(500, 3, 50, 5),
                  TickerTable(500, 1, 900, 0)}

CoinFilterConfigs == {CoinFilterConfig, NoCoinFilterConfig}

Datasets == {"no_data", "prepare_failed", "empty", "ok"}
\* the classifier's answer: a label, or an exception inside predict's try
Classifications == {[label |-> l, raises |-> FALSE] : l \in Labels}
                   \cup {[label |-> "HOLD", raises |-> TRUE]}
Balances == {NoBalance, [kind |-> "ok", usdt |-> 40], [kind |-> "ok", usdt |-> 1000]}
NoTicker == [kind |-> "fail", last |-> Num(0)]
Tickers == {NoTicker, [kind |-> "no_last", last |-> Num(0)],
            [kind |-> "last", last |-> NullPrice], [kind |-> "last", last |-> Num(0)],
            [kind |-> "last", last |-> Num(100)]}
Averages == {[kind |-> "absent", val |-> 0], [kind |-> "null", val |-> 0],
             [kind |-> "num", val |-> 101]}
\* place_order_sync's answer: None (ok = FALSE) or the order the exchange created
NoOrder == [ok |-> FALSE, id |-> 0, average |-> [kind |-> "absent", val |-> 0]]
Orders(n) == {NoOrder}
             \cup (IF n < MaxOrders
                   THEN {[ok |-> TRUE, id |-> n + 1, average |-> a] : a \in Averages}
                   ELSE {})

\* predict on its own: the mappings it may be handed and the trios it may hold
IndicatorNames == PredictFeatures \cup {"Additional1", "Additional2"}
LoadedTrios == {LoadModel(m, sc, le, n) : m \in {"corrupt", "ok"}, sc \in ArtifactFiles,
                                          le \in ArtifactFiles, n \in FittedWidths}
Queries == [dm : LoadedTrios, indicators : SUBSET IndicatorNames, clf : Classifications]
NoQuery == [dm |-> NoDecisionMaker, indicators |-> {},
            clf |-> [label |-> "HOLD", raises |-> TRUE]]
NoAnswer == [first |-> "", second |-> ""]

\* get_trading_symbols on its own: ticker tables over the names of FilterCatalog,
\* rows in the catalog's order
FilterTable(rows) ==
  [kind |-> "ok",
   table |-> [s \in FilterNames |->
                rows[CHOOSE i \in 1..Len(FilterCatalog) : FilterCatalog[i] = s]]]
\* ten candidates; four below a volume of 100; of the three largest one moves
\* less than 2 percent
VolumeTable ==
  FilterTable(<<Ticker(400, 3), Ticker(50, 6), Ticker(900, 3), Ticker(40, 7), Ticker(600, 5),
                Ticker(999, 9), Ticker(800, 1), Ticker(30, 0), Ticker(700, -4), Ticker(20, 2),
                Ticker(500, -2)>>)
\* equal volumes
TiedTable ==
  FilterTable(<<Ticker(500, 3), Ticker(500, -3), Ticker(500, 1), Ticker(500, 2), Ticker(100, 5),
                Ticker(500, 9), Ticker(500, 0), Ticker(99, 8), Ticker(500, -1), Ticker(500, 4),
                Ticker(500, -2)>>)
\* entries that are missing or hold None
PartialTable ==
  FilterTable(<<[kind |-> "null_percentage", quoteVolume |-> 900, percentage |-> 0],
                MissingTicker, Ticker(800, 3),
                [kind |-> "null_volume", quoteVolume |-> 0, percentage |-> 3],
                Ticker(600, 5), Ticker(999, 9), Ticker(700, 1), Ticker(30, 0), Ticker(650, -4),
                Ticker(20, 2), Ticker(500, -2)>>)
FilterTickerAnswers == {[kind |-> "fail", table |-> <<>>], VolumeTable, TiedTable, PartialTable}

ScenarioDConfig == [defined |-> TRUE, min_volume |-> 100, top_n |-> 3,
                    min_price_volatility |-> 2]
FilterConfigs == {ScenarioDConfig, CoinFilterConfig, NoCoinFilterConfig}

\* self.markets: the catalog loaded at line 423, all but at most two of the USDT
\* names or at most two of them, in the catalog's order
FilterMarkets ==
  {SelectSeq(FilterCatalog, LAMBDA s : s \in S \cup {"ETH/BTC"}) :
     S \in {T \in SUBSET (FilterNames \ {"ETH/BTC"}) : Cardinality(T) \notin 3..7}}
\* the catalog verify_symbols fetches again
FilterFresh == {[kind |-> "none", names |-> {}],
                [kind |-> "ok", names |-> FilterNames],
                [kind |-> "ok", names |-> FilterNames \ {"DOT/USDT", "XRP/USDT"}]}
FilterQueries == [markets : FilterMarkets, fresh : FilterFresh,
                  tickers : FilterTickerAnswers, cfg : FilterConfigs]
NoFilterQuery == [markets |-> <<>>, fresh |-> [kind |-> "none", names |-> {}],
                  tickers |-> [kind |-> "fail", table |-> <<>>], cfg |-> NoCoinFilterConfig]
NoFilterAnswer == [done |-> FALSE, candidates |-> <<>>, verified |-> <<>>,
                   error_logged |-> FALSE, universe |-> <<>>]

\* train_model on its own: the artifacts on disk before the call
NoModelFiles == [model |-> "none", scaler |-> "none", label_encoder |-> "none"]
ModelFilesBefore == {NoModelFiles,
                     [model |-> "saved", scaler |-> "saved", label_encoder |-> "saved"]}
\* the decision maker before the call: what load_model left
TrainQueries == LoadedTrios

\* An answer is drawn only where the code asks for it.
ClassificationsAsked(data) ==
  IF data = "ok" THEN Classifications ELSE {[label |-> "HOLD", raises |-> TRUE]}
BalancesAsked(decision) ==
  IF decision # "none" THEN Balances ELSE {NoBalance}
TickersAsked(decision, balance) ==
  IF /\ decision # "none"
     /\ balance.kind = "ok"
     /\ risk.defined
     /\ ~BelowMinimum(UsableBalance(balance.usdt))
  THEN Tickers ELSE {NoTicker}
OrdersAsked(ticker, n) ==
  IF ticker.kind = "last" /\ ~ticker.last.null /\ ticker.last.val # 0
  THEN Orders(n) ELSE {NoOrder}

----------------------------------------------------------------------------
(* TradingSystem: construction, trade_logic and the run loop *)

\* The process at line 600, before TradingSystem() is built, on a first run: no
\* trade_history.csv yet, so load_trade_history (lines 430-445) gives an empty
\* frame.  The risk globals are bound to valid values by whoever loads the module,
\* or left unbound as the file leaves them; pandas is an old or a new one.
Init ==
  /\ pc = "main"
  /\ idx = 1
  /\ symbols = <<>>
  /\ position = [s \in Symbols |-> Absent]
  /\ trade_history = <<>>
  /\ trade_file = <<>>
  /\ decision_maker = NoDecisionMaker
  /\ risk \in RiskConfigs
  /\ pandas_append \in BOOLEAN
  /\ elapsed = FALSE
  /\ gateway_orders = 0
  /\ call = NoCall
  /\ markets = NotFetched
  /\ slept = FALSE
  /\ query = NoQuery
  /\ answer = NoAnswer
  /\ filter_query = NoFilterQuery
  /\ filter_answer = NoFilterAnswer
  /\ train_query = NoDecisionMaker
  /\ model_files = NoModelFiles

ConstructRaises_IgnoresCatalog(model_file, catalog) == model_file = "missing"

\* __init__ raises: AIDecisionMaker() at line 420, whose load_model calls the
\* train_model this AIDecisionMaker does not have when the model file is missing;
\* or the raise of lines 424-425 when the catalog is None
ConstructRaises(model_file, catalog) == model_file = "missing" \/ catalog.kind = "none"

\* TradingSystem() in __main__ (lines 600-606), __init__ (lines 418-428).  The
\* decision maker is built before the catalog is fetched.  When __init__ raises no
\* system is built: __main__ logs and the process ends without calling run.
Construct ==
  /\ pc = "main"
  /\ \E model_file \in ModelFiles, scaler_file \in ArtifactFiles, label_file \in ArtifactFiles,
        n \in FittedWidths, catalog \in MarketAnswers, fresh \in MarketAnswers,
        tickers \in TickerAnswers, cfg \in CoinFilterConfigs :
       /\ markets' = IF model_file = "missing" THEN NotFetched ELSE catalog
       /\ IF ConstructRaises(model_file, catalog)
          THEN /\ pc' = "failed_start"
               /\ UNCHANGED <<symbols, decision_maker>>
          ELSE /\ decision_maker' = LoadModel(model_file, scaler_file, label_file, n)
               /\ symbols' = GetTradingSymbols(
                               SelectSeq(MarketCatalog, LAMBDA s : s \in catalog.names),
                               fresh, tickers, cfg)
               /\ pc' = "trade_logic"
  /\ UNCHANGED <<idx, position, trade_history, trade_file, risk, pandas_append, elapsed,
                 gateway_orders, call, slept>>
  /\ UNCHANGED function_vars

\* trade_logic lines 536-543: the order to place for a signal, given the side held
Decide(signal, side) ==
  IF signal = "BUY" /\ side # "LONG" THEN "buy"
  ELSE IF signal = "SELL" /\ side # "SHORT" THEN "sell"
  ELSE IF signal = "AVERAGE_DOWN" /\ side = "LONG" THEN "average_down"
  ELSE "none"

\* the side argument of the execute_order call (lines 539, 541, 543)
OrderSide(decision) == IF decision = "sell" THEN "sell" ELSE "buy"

AfterTradeLogic_Escapes(raised) == IF raised THEN "failed_start" ELSE "retrain_check"

\* where run goes when trade_logic raised (lines 507-510): the handler is outside
\* the for loop
AfterTradeLogic(raised) == IF raised THEN "except" ELSE "retrain_check"

\* trade_logic (lines 512-544) for the symbol the for loop is at
TradeLogic ==
  /\ pc = "trade_logic"
  /\ idx \in 1..Len(symbols)
  /\ \E data \in Datasets : \E clf \in ClassificationsAsked(data) :
       LET symbol == symbols[idx]
           signal == Predict(decision_maker, PredictFeatures, clf)
           praised == ~NotLoaded(decision_maker)
                      /\ TryRaises(decision_maker, Cardinality(PredictFeatures), clf)
           decision == IF data = "ok" THEN Decide(signal, position[symbol].side)
                       ELSE "none"
       IN  \E balance \in BalancesAsked(decision) :
           \E ticker \in TickersAsked(decision, balance) :
           \E order \in OrdersAsked(ticker, gateway_orders) :
             LET r == ExecuteOrder(symbol, OrderSide(decision), balance, ticker, order)
             IN  IF data # "ok"
                 THEN /\ call' = [NoCall EXCEPT !.symbol = symbol, !.outcome = data]
                      /\ pc' = AfterTradeLogic(FALSE)
                      /\ UNCHANGED <<position, trade_history, gateway_orders>>
                 ELSE IF decision = "none"
                 THEN /\ call' = [NoCall EXCEPT !.symbol = symbol, !.signal = signal,
                                                !.side = "none", !.outcome = "no_action",
                                                !.predict_raised = praised]
                      /\ pc' = AfterTradeLogic(FALSE)
                      /\ UNCHANGED <<position, trade_history, gateway_orders>>
                 ELSE /\ call' = [symbol |-> symbol, signal |-> signal, side |-> decision,
                                  outcome |-> r.outcome, placed |-> r.placed,
                                  accepted |-> r.accepted, raised |-> r.raised,
                                  predict_raised |-> praised, balance |-> balance, price |-> r.price,
                                  amount |-> r.amount]
                      /\ position' = r.pos
                      /\ trade_history' = r.hist
                      /\ gateway_orders' = IF r.accepted THEN gateway_orders + 1
                                           ELSE gateway_orders
                      /\ pc' = AfterTradeLogic(r.raised)
  /\ UNCHANGED <<idx, symbols, trade_file, decision_maker, risk, pandas_append, elapsed>>
  /\ UNCHANGED <<markets, slept, function_vars>>

\* the for loop over an empty universe (line 498): its body, and with it the sleep
\* of line 506, is never entered and the try block is left
EmptyPass ==
  /\ pc = "trade_logic"
  /\ symbols = <<>>
  /\ pc' = "pass_done"
  /\ UNCHANGED <<idx, symbols, position, trade_history, trade_file, decision_maker,
                 risk, pandas_append, elapsed, gateway_orders, call>>
  /\ UNCHANGED <<markets, slept, function_vars>>

\* where run goes after the retrain check of lines 502-504: check_and_retrain is no
\* attribute of the decision maker (and X_test, y_test are unbound), so the call raises
AfterRetrainCheck(due) == IF due THEN "except" ELSE "sleep"

RetrainCheck ==
  /\ pc = "retrain_check"
  /\ pc' = AfterRetrainCheck(elapsed)
  /\ call' = NoCall
  /\ UNCHANGED <<idx, symbols, position, trade_history, trade_file, decision_maker,
                 risk, pandas_append, elapsed, gateway_orders>>
  /\ UNCHANGED <<markets, slept, function_vars>>

\* the index the for loop continues at after the sleep of line 506; past the last
\* symbol the while loop starts the for loop again
NextIndex(i, n) == IF i < n THEN i + 1 ELSE 1

\* where run is after that sleep: at the next symbol, or past the for loop
AfterSleep(i, n) == IF i < n THEN "trade_logic" ELSE "pass_done"

\* time.sleep(TRADE_INTERVAL), line 506; performance_last_checked is never
\* assigned after __init__, so once the day has passed it stays passed
Sleep ==
  /\ pc = "sleep"
  /\ elapsed' \in {elapsed, TRUE}
  /\ idx' = NextIndex(idx, Len(symbols))
  /\ pc' = AfterSleep(idx, Len(symbols))
  /\ slept' = TRUE
  /\ UNCHANGED <<symbols, position, trade_history, trade_file, decision_maker, risk,
                 pandas_append, gateway_orders, call>>
  /\ UNCHANGED <<markets, function_vars>>

\* the index the loop is at after the handler of lines 507-510
IndexAfterExcept(i) == 1

\* except Exception: log, sleep (line 510, the last statement of the pass), and the
\* while loop starts the for loop again
ExceptSleep ==
  /\ pc = "except"
  /\ elapsed' \in {elapsed, TRUE}
  /\ idx' = IndexAfterExcept(idx)
  /\ pc' = "trade_logic"
  /\ call' = NoCall
  /\ slept' = FALSE
  /\ UNCHANGED <<symbols, position, trade_history, trade_file, decision_maker, risk,
                 pandas_append, gateway_orders>>
  /\ UNCHANGED <<markets, function_vars>>

\* while True (line 496): the try block was left without an exception and the
\* next pass begins
NextPass ==
  /\ pc = "pass_done"
  /\ pc' = "trade_logic"
  /\ slept' = FALSE
  /\ UNCHANGED <<idx, symbols, position, trade_history, trade_file, decision_maker,
                 risk, pandas_append, elapsed, gateway_orders, call>>
  /\ UNCHANGED <<markets, function_vars>>

\* one predict call, by each of the two definitions
InitPredict ==
  /\ pc = "predict"
  /\ idx = 1
  /\ symbols = <<>>
  /\ position = [s \in Symbols |-> Absent]
  /\ trade_history = <<>>
  /\ trade_file = <<>>
  /\ decision_maker = NoDecisionMaker
  /\ risk = NoRiskConfig
  /\ pandas_append = FALSE
  /\ elapsed = FALSE
  /\ gateway_orders = 0
  /\ call = NoCall
  /\ markets = NotFetched
  /\ slept = FALSE
  /\ query \in Queries
  /\ answer = NoAnswer
  /\ filter_query = NoFilterQuery
  /\ filter_answer = NoFilterAnswer
  /\ train_query = NoDecisionMaker
  /\ model_files = NoModelFiles

CallPredict ==
  /\ pc = "predict"
  /\ answer = NoAnswer
  /\ answer' = [first |-> PredictFirst(query.dm, query.indicators, query.clf),
                second |-> Predict(query.dm, query.indicators, query.clf)]
  /\ UNCHANGED <<system_vars, query, filter_vars, train_vars>>

SpecPredict == InitPredict /\ [][CallPredict]_vars

\* one get_trading_symbols call (lines 481-490): the candidates of line 485, what
\* verify_symbols makes of them, whether apply_coin_filter logged at line 477, and
\* the list returned
InitFilter ==
  /\ pc = "filter"
  /\ idx = 1
  /\ symbols = <<>>
  /\ position = [s \in Symbols |-> Absent]
  /\ trade_history = <<>>
  /\ trade_file = <<>>
  /\ decision_maker = NoDecisionMaker
  /\ risk = NoRiskConfig
  /\ pandas_append = FALSE
  /\ elapsed = FALSE
  /\ gateway_orders = 0
  /\ call = NoCall
  /\ markets = NotFetched
  /\ slept = FALSE
  /\ query = NoQuery
  /\ answer = NoAnswer
  /\ filter_query \in FilterQueries
  /\ filter_answer = NoFilterAnswer
  /\ train_query = NoDecisionMaker
  /\ model_files = NoModelFiles

CallFilter ==
  /\ pc = "filter"
  /\ ~filter_answer.done
  /\ LET q == filter_query
         candidates == SelectSeq(q.markets, IsUsdt)
         verified == VerifySymbols(candidates, q.fresh)
     IN  filter_answer' =
           [done |-> TRUE,
            candidates |-> candidates,
            verified |-> verified,
            error_logged |-> CoinFilterRaises(verified, q.tickers, q.cfg),
            universe |-> GetTradingSymbols(q.markets, q.fresh, q.tickers, q.cfg)]
  /\ UNCHANGED <<system_vars, predict_vars, filter_query, train_vars>>

SpecFilter == InitFilter /\ [][CallFilter]_vars

\* the entry of self.position a trade_logic call on its own finds: none, one with a
\* side lines 538-542 compare with, or one execute_order wrote (line 572)
PositionsHeld ==
  {Absent} \cup {[side |-> sd, amount |-> Rat(3, 10)] : sd \in {"LONG", "SHORT", "BUY", "SELL"}}

\* self.trade_history as a trade_logic call on its own finds it: empty, or the
\* rows load_trade_history read from trade_history.csv (lines 430-445)
LoadedRow(symbol, price) ==
  [symbol |-> symbol, action |-> "BUY", price |-> Num(price), amount |-> Rat(3, 10),
   order_id |-> 0]
HistoriesBefore ==
  {<<>>, <<LoadedRow("BTC/USDT", 90)>>,
   <<LoadedRow("ETH/USDT", 80), LoadedRow("BTC/USDT", 90)>>}

\* one trade_logic call (lines 512-544) of a system that was built
InitTradeLogic ==
  /\ pc = "trade_logic"
  /\ idx = 1
  /\ symbols = <<"BTC/USDT">>
  /\ \E held \in PositionsHeld :
       position = [s \in Symbols |-> IF s = "BTC/USDT" THEN held ELSE Absent]
  /\ trade_history \in HistoriesBefore
  /\ trade_file = <<>>
  /\ decision_maker = LoadModel("ok", "ok", "ok", Cardinality(PredictFeatures))
  /\ risk \in RiskConfigs
  /\ pandas_append \in BOOLEAN
  /\ elapsed = FALSE
  /\ gateway_orders = 0
  /\ call = NoCall
  /\ markets = [kind |-> "ok", names |-> {"BTC/USDT", "ETH/BTC", "ETH/USDT"}]
  /\ slept = FALSE
  /\ query = NoQuery
  /\ answer = NoAnswer
  /\ filter_query = NoFilterQuery
  /\ filter_answer = NoFilterAnswer
  /\ train_query = NoDecisionMaker
  /\ model_files = NoModelFiles

SpecTradeLogic == InitTradeLogic /\ [][TradeLogic]_vars

\* train_model (lines 90-107) statement by statement, each fit and each joblib.dump
\* either returning or raising; retrain_model (lines 405-411) of the AIDecisionMaker
\* the trading system uses, whose class has no train_model.
InitTrain ==
  /\ pc \in {"train_model", "retrain_model"}
  /\ idx = 1
  /\ symbols = <<>>
  /\ position = [s \in Symbols |-> Absent]
  /\ trade_history = <<>>
  /\ trade_file = <<>>
  /\ decision_maker \in TrainQueries
  /\ risk = NoRiskConfig
  /\ pandas_append = FALSE
  /\ elapsed = FALSE
  /\ gateway_orders = 0
  /\ call = NoCall
  /\ markets = NotFetched
  /\ slept = FALSE
  /\ query = NoQuery
  /\ answer = NoAnswer
  /\ filter_query = NoFilterQuery
  /\ filter_answer = NoFilterAnswer
  /\ train_query = decision_maker
  /\ model_files \in ModelFilesBefore

TrainFrame == <<idx, symbols, position, trade_history, trade_file, risk, pandas_append,
                elapsed, gateway_orders, call, markets, slept, predict_vars, filter_vars,
                train_query>>

\* the default of the parameter input_size (line 90)
DefaultInputSize == Cardinality(PredictFeatures) + 2

\* lines 91-93
SetInputSize ==
  /\ pc = "train_model"
  /\ decision_maker' = [decision_maker EXCEPT !.n_features = DefaultInputSize]
  /\ pc' = "fit_scaler"
  /\ UNCHANGED <<TrainFrame, model_files>>

\* where train_model is after a statement, which raised or returned
AfterStep(raised, then) == IF raised THEN "train_failed" ELSE then

\* the object an assignment followed by a fit leaves in the attribute
Fitted(raised) == IF raised THEN "unfitted" ELSE "trained"

\* lines 95-96
FitScaler ==
  /\ pc = "fit_scaler"
  /\ \E raised \in BOOLEAN :
       /\ decision_maker' = [decision_maker EXCEPT !.scaler = Fitted(raised)]
       /\ pc' = AfterStep(raised, "fit_encoder")
  /\ UNCHANGED <<TrainFrame, model_files>>

\* lines 98-99
FitEncoder ==
  /\ pc = "fit_encoder"
  /\ \E raised \in BOOLEAN :
       /\ decision_maker' = [decision_maker EXCEPT !.label_encoder = Fitted(raised)]
       /\ pc' = AfterStep(raised, "fit_model")
  /\ UNCHANGED <<TrainFrame, model_files>>

\* lines 101-102
FitModel ==
  /\ pc = "fit_model"
  /\ \E raised \in BOOLEAN :
       /\ decision_maker' = [decision_maker EXCEPT !.model = Fitted(raised)]
       /\ pc' = AfterStep(raised, "dump_model")
  /\ UNCHANGED <<TrainFrame, model_files>>

\* line 104
DumpModel ==
  /\ pc = "dump_model"
  /\ \E raised \in BOOLEAN :
       /\ model_files' = IF raised THEN model_files
                         ELSE [model_files EXCEPT !.model = "trained"]
       /\ pc' = AfterStep(raised, "dump_scaler")
  /\ UNCHANGED <<TrainFrame, decision_maker>>

\* line 105
DumpScaler ==
  /\ pc = "dump_scaler"
  /\ \E raised \in BOOLEAN :
       /\ model_files' = IF raised THEN model_files
                         ELSE [model_files EXCEPT !.scaler = "trained"]
       /\ pc' = AfterStep(raised, "dump_encoder")
  /\ UNCHANGED <<TrainFrame, decision_maker>>

\* lines 106-107
DumpEncoder ==
  /\ pc = "dump_encoder"
  /\ \E raised \in BOOLEAN :
       /\ model_files' = IF raised THEN model_files
                         ELSE [model_files EXCEPT !.label_encoder = "trained"]
       /\ pc' = AfterStep(raised, "trained")
  /\ UNCHANGED <<TrainFrame, decision_maker>>

\* retrain_model, lines 405-411: self.train_model() is an AttributeError
RetrainModel ==
  /\ pc = "retrain_model"
  /\ pc' = "train_failed"
  /\ UNCHANGED <<TrainFrame, decision_maker, model_files>>

NextTrain ==
  \/ SetInputSize \/ FitScaler \/ FitEncoder \/ FitModel
  \/ DumpModel \/ DumpScaler \/ DumpEncoder \/ RetrainModel

SpecTrain == InitTrain /\ [][NextTrain]_vars

Next ==
  Construct \/ TradeLogic \/ EmptyPass \/ RetrainCheck \/ Sleep \/ ExceptSleep \/ NextPass

Spec == Init /\ [][Next]_vars

----------------------------------------------------------------------------
(* Properties *)

\* execute_order ran in the call that has just ended
Executed(c) == c.side \in {"buy", "sell", "average_down"}

\* the call that has just ended fetched a last price
PriceFetched(c) ==
  c.outcome \in {"price_zero", "type_error", "order_failed", "append_error", "save_error"}

\* the ledger and the positions are what they were before the step
LedgerUntouched ==
  /\ position' = position
  /\ trade_history' = trade_history
  /\ trade_file' = trade_file

\* C1: when place_order_sync returns no order, execute_order leaves the position
\* map and the trade history exactly as they were before the call.
C1_FailedOrderLeavesLedger ==
  [][(pc = "trade_logic" /\ call'.placed /\ ~call'.accepted) => LedgerUntouched]_vars

C1_Witness == call.placed /\ ~call.accepted /\ call.outcome = "order_failed"

\* C2 (as claimed): whenever control is outside execute_order, the recorded and
\* the persisted trade records are one per order the exchange accepted, and a
\* symbol with a position has a stored record.
C2_RecordIffAccepted ==
  /\ Len(trade_history) = gateway_orders
  /\ Len(trade_file) = gateway_orders
  /\ \A s \in Symbols :
       position[s] # Absent => \E i \in 1..Len(trade_file) : trade_file[i].symbol = s

\* a long position: the side the decision table tests for, or the entry an
\* accepted buy order wrote
HeldLong(s) == position[s].side \in {"LONG", "BUY"}

\* C3 (as claimed): for a symbol that holds a long position, the one an earlier
\* accepted BUY created included, a BUY signal makes trade_logic take no action
\* and submit no order.
C3_BuyWhileLongIsNoAction ==
  [][(/\ pc = "trade_logic"
      /\ idx \in 1..Len(symbols)
      /\ HeldLong(symbols[idx])
      /\ call'.signal = "BUY")
     => (call'.side = "none" /\ ~call'.placed)]_vars

\* the claimed order size, from what the call fetched
ClaimedRawSize(c) ==
  RatDiv(RatMul(RatMul(RatInt(c.balance.usdt), RatSub(RatInt(1), risk.reserve_ratio)),
                risk.max_portfolio_exposure),
         RatInt(c.price.val))
ClaimedFloorSize(c) == RatDiv(risk.min_trade_amount, RatInt(c.price.val))

ScenarioA == RiskConfig(Rat(1, 10), Rat(1, 5), RatInt(50))

\* C4: at a positive last price the amount execute_order submits is
\* max(balance*(1-reserve_ratio)*max_portfolio_exposure/last_price,
\* min_trade_amount/last_price), so never below min_trade_amount/last_price; with
\* balance 1000, reserve 0.1, exposure 0.2, price 100, minimum 50 it is 1.8.
C4_SubmittedAmount ==
  (call.placed /\ call.price.val > 0) =>
    /\ call.amount = RatMax(ClaimedRawSize(call), ClaimedFloorSize(call))
    /\ RatLeq(ClaimedFloorSize(call), call.amount)
    /\ (risk = ScenarioA /\ call.balance.usdt = 1000 /\ call.price.val = 100)
         => call.amount = Rat(9, 5)

C4_Witness ==
  /\ call.placed
  /\ risk = ScenarioA
  /\ call.balance.usdt = 1000
  /\ call.price = Num(100)
  /\ call.amount = Rat(18, 10)

\* the usable capital of a fetched balance is below the minimum trade amount
UsableBelowMinimum(c) ==
  /\ c.balance.kind = "ok"
  /\ risk.defined
  /\ RatLess(RatMul(RatInt(c.balance.usdt), RatSub(RatInt(1), risk.reserve_ratio)),
             risk.min_trade_amount)

\* C5: when the balance cannot be fetched, or the usable capital is below
\* min_trade_amount, execute_order submits no order, changes no position and
\* creates no trade record.
C5_NoOrderBelowMinimum ==
  [][(/\ pc = "trade_logic"
      /\ Executed(call')
      /\ (call'.balance.kind = "fail" \/ UsableBelowMinimum(call')))
     => (/\ ~call'.placed
         /\ gateway_orders' = gateway_orders
         /\ LedgerUntouched)]_vars

C5_Witness ==
  /\ Executed(call)
  /\ risk.defined
  /\ call.balance = [kind |-> "ok", usdt |-> 40]
  /\ call.outcome = "below_minimum"

\* C6 (as claimed): when the last price is unavailable or not above zero,
\* execute_order submits no order, does not raise, and changes neither the
\* positions nor the trade history.
C6_BadPriceAborts ==
  [][(/\ pc = "trade_logic"
      /\ PriceFetched(call')
      /\ (call'.price.null \/ call'.price.val <= 0))
     => (/\ ~call'.placed
         /\ ~call'.raised
         /\ LedgerUntouched)]_vars

\* C7 (as claimed): the predict the trading system uses returns HOLD for every
\* mapping whose number of entries differs from the width the model was fitted on.
C7_MismatchedArityHolds ==
  (answer # NoAnswer /\ Cardinality(query.indicators) # query.dm.n_features)
    => answer.second = "HOLD"

\* C8: when the model, the scaler or the label mapping is not loaded, or the
\* prediction raises, predict returns HOLD and trade_logic places no order and
\* leaves the position as it is, whatever side the symbol holds.
C8_UnavailableClassifierHolds ==
  [][(/\ pc = "trade_logic"
      /\ idx \in 1..Len(symbols)
      /\ call'.outcome \notin Datasets
      /\ (NotLoaded(decision_maker) \/ call'.predict_raised))
     => (/\ call'.signal = "HOLD"
         /\ call'.side = "none"
         /\ ~call'.placed
         /\ gateway_orders' = gateway_orders
         /\ LedgerUntouched)]_vars

C8_Witness ==
  /\ call.predict_raised
  /\ call.signal = "HOLD"
  /\ call.outcome = "no_action"
  /\ position[call.symbol] # Absent

\* C9 (as claimed): after trade_logic raised for a symbol that is not the last of
\* the universe, the loop goes on with the next symbol of the same cycle.
C9_RaiseSkipsOnlyThatSymbol ==
  [][(pc = "except" /\ call.raised /\ idx < Len(symbols)) => idx' = idx + 1]_vars

\* the retrain call of line 504 has just raised
RetrainFailed == pc = "except" /\ call = NoCall

\* C10 (as claimed): a failed retrain attempt does not block trading: the symbols
\* after the one just traded are still evaluated, and once the interval has
\* elapsed no symbol of the universe is left out of the cycles that follow.
C10_RetrainFailureDoesNotBlock ==
  [][(RetrainFailed /\ idx < Len(symbols)) => idx' = idx + 1]_vars

\* C11: when fetch_tickers fails and the validated candidate list is not empty,
\* apply_coin_filter returns that list unchanged and logs an error, so the
\* universe is not empty.
C11_TickerFailureKeepsCandidates ==
  (/\ filter_answer.done
   /\ filter_query.tickers.kind = "fail"
   /\ filter_answer.verified # <<>>)
    => (/\ filter_answer.universe = filter_answer.verified
        /\ filter_answer.error_logged
        /\ filter_answer.universe # <<>>)

C11_Witness ==
  /\ filter_answer.done
  /\ filter_query.tickers.kind = "fail"
  /\ filter_query.cfg.defined
  /\ Len(filter_answer.verified) = 8
  /\ filter_answer.universe = filter_answer.verified

\* the members of a sequence
Range(seq) == {seq[i] : i \in 1..Len(seq)}

\* the thresholds a call filters by: the bound ones, or any the deployment may
\* have meant when none is bound
ClaimedThresholds(cfg) == IF cfg.defined THEN {cfg} ELSE {ScenarioDConfig, CoinFilterConfig}

\* step (1): the candidates whose quote volume reaches the minimum
ClaimedVolumeStep(syms, t, c) == {s \in Range(syms) : t[s].quoteVolume >= c.min_volume}

\* step (2): the ways to keep the N largest by quote volume
ClaimedTopNStep(passed, t, c) ==
  {T \in SUBSET passed :
     /\ Cardinality(T) = IF Cardinality(passed) < c.top_n THEN Cardinality(passed) ELSE c.top_n
     /\ \A a \in T, b \in passed \ T : t[a].quoteVolume >= t[b].quoteVolume}

\* step (3): those that moved at least the minimum percentage, either way
ClaimedVolatilityStep(T, t, c) == {s \in T : Abs(t[s].percentage) >= c.min_price_volatility}

ScenarioD ==
  /\ Len(filter_answer.verified) = 10
  /\ filter_query.tickers = VolumeTable
  /\ filter_query.cfg \in {ScenarioDConfig, NoCoinFilterConfig}

\* C12 (as claimed): when fetch_tickers answers, apply_coin_filter returns exactly
\* the symbols left by (1) the minimum quote volume, (2) the top N by quote volume,
\* (3) the minimum absolute percentage change, in this order; ten candidates of
\* which four fail the volume test, N = 3 and one of the three failing the
\* volatility test leave two symbols.
C12_FilterPipeline ==
  (filter_answer.done /\ filter_query.tickers.kind = "ok") =>
    /\ \E c \in ClaimedThresholds(filter_query.cfg) :
         \E T \in ClaimedTopNStep(ClaimedVolumeStep(filter_answer.verified,
                                                    filter_query.tickers.table, c),
                                  filter_query.tickers.table, c) :
           Range(filter_answer.universe) =
             ClaimedVolatilityStep(T, filter_query.tickers.table, c)
    /\ ScenarioD => Len(filter_answer.universe) = 2

\* the same, where COIN_FILTER_CONFIG is bound and every ticker field holds a number
C12_WhereConfigured ==
  (/\ filter_query.cfg.defined
   /\ filter_query.tickers # PartialTable) => C12_FilterPipeline

\* C13: if the market catalog cannot be loaded at startup, constructing the
\* trading system fails and the loop is never entered: run is not invoked, no
\* trade_logic step executes and no order is ever submitted.
C13_NoCatalogNoRun ==
  markets.kind = "none" =>
    /\ pc = "failed_start"
    /\ call = NoCall
    /\ gateway_orders = 0
    /\ symbols = <<>>
    /\ trade_history = <<>>
    /\ \A s \in Symbols : position[s] = Absent

C13_Witness == markets.kind = "none" /\ pc = "failed_start"

\* the side of the decision table a symbol is on: NONE without a position, SHORT
\* for the entry an accepted sell order wrote
HeldSide(s) ==
  IF position[s] = Absent THEN "NONE" ELSE IF HeldLong(s) THEN "LONG" ELSE "SHORT"

\* the decision table
ClaimedAction(signal, side) ==
  CASE signal = "BUY" /\ side \in {"NONE", "SHORT"} -> "buy"
    [] signal = "SELL" /\ side \in {"NONE", "LONG"} -> "sell"
    [] signal = "AVERAGE_DOWN" /\ side = "LONG" -> "average_down"
    [] OTHER -> "none"

\* C14 (as claimed): for every signal and every side a symbol is on, trade_logic
\* acts by the decision table: BUY opens a long unless the side is LONG, SELL opens
\* a short unless the side is SHORT, AVERAGE_DOWN averages down a LONG only, HOLD
\* and any other value do nothing.
C14_DecisionTable ==
  [][(/\ pc = "trade_logic"
      /\ idx \in 1..Len(symbols)
      /\ call'.outcome \notin Datasets)
     => call'.side = ClaimedAction(call'.signal, HeldSide(symbols[idx]))]_vars

\* control is inside the while loop of run
Running == pc \in {"trade_logic", "retrain_check", "sleep", "except", "pass_done"}

\* C15: the run loop does not end: a step is always possible inside it and none
\* leaves it; an exception that reaches the loop level is caught and followed by
\* exactly one sleep, after which the whole loop starts again from the first
\* symbol with the universe, the positions and the history as they were.
C15_RunLoopNeverEnds ==
  /\ [](Running => ENABLED Next)
  /\ [][Running => Running']_vars
  /\ [][pc = "except" => (/\ pc' = "trade_logic"
                          /\ idx' = 1
                          /\ symbols' = symbols
                          /\ LedgerUntouched)]_vars

\* the loop is running again after an accepted order whose record raised
C15_Witness ==
  /\ pc = "trade_logic"
  /\ idx = 1
  /\ call = NoCall
  /\ ~pandas_append
  /\ gateway_orders = 1
  /\ trade_history = <<>>

\* C16 (as claimed): when the catalog cannot be fetched again for the validation
\* step, verify_symbols falls back to the candidate list it was given, so
\* get_trading_symbols returns a universe that is not empty whenever the list of
\* USDT candidates was not empty.
C16_ValidationFailureKeepsCandidates ==
  (/\ filter_answer.done
   /\ filter_query.fresh.kind = "none"
   /\ filter_answer.candidates # <<>>)
    => (/\ filter_answer.verified = filter_answer.candidates
        /\ filter_answer.universe # <<>>)

RatAdd(a, b) == Rat(a.num * b.den + b.num * a.den, a.den * b.den)

C18_RetrainIsAtomic ==
  pc = "train_failed" => decision_maker = train_query

\* C19 (as claimed): in every reachable state each symbol has one position, whose
\* side is LONG, SHORT or NONE (no entry) and whose amount is not negative.
C19_PositionSides ==
  /\ DOMAIN position = Symbols
  /\ \A s \in Symbols :
       /\ position[s].side \in {"LONG", "SHORT"} \/ position[s] = Absent
       /\ RatLeq(RatInt(0), position[s].amount)

\* C20 (as claimed): the price of a stored trade record is the fill price the
\* order reports or else the last price fetched, and is never empty.
C20_StoredPriceNeverEmpty ==
  /\ \A i \in 1..Len(trade_history) : ~trade_history[i].price.null
  /\ call.outcome = "save_error" =>
       trade_history[Len(trade_history)].price
         \in {call.price} \cup {Num(a.val) : a \in {b \in Averages : b.kind = "num"}}

\* C21: the trade history is append-only: every step leaves it as it is or adds
\* exactly one record at its end, the record of the order just accepted for the
\* symbol traded; the records it held stay as they were and in their order, so
\* each symbol's records are in the order of their orders.
C21_HistoryAppendOnly ==
  [][\/ trade_history' = trade_history
     \/ /\ Len(trade_history') = Len(trade_history) + 1
        /\ SubSeq(trade_history', 1, Len(trade_history)) = trade_history
        /\ call'.accepted
        /\ trade_history'[Len(trade_history')].symbol = call'.symbol
        /\ trade_history'[Len(trade_history')].order_id = gateway_orders']_vars

C21_Witness ==
  /\ call.accepted
  /\ Len(trade_history) = 3
  /\ SubSeq(trade_history, 1, 2) \in HistoriesBefore
  /\ trade_history[3].symbol = call.symbol

\* C22 (as claimed): every pass of the while loop of run has slept at least once
\* when it ends, whatever the universe, the empty one included.
C22_EveryPassSleeps == pc = "pass_done" => slept

\* C23 (as claimed): an attempted retrain advances the last-check time, so the
\* interval is no longer elapsed after it and no further attempt follows until a
\* full interval has passed again.
C23_RetrainOncePerInterval ==
  [][(pc = "retrain_check" /\ elapsed) => ~elapsed']_vars

====
